---------------------------- MODULE Spec2Model ----------------------------
(***************************************************************************)
(* A model of boost::interprocess::mapped_region                           *)
(* (include/boost/interprocess/mapped_region.hpp).                         *)
(*                                                                         *)
(* The header holds two definitions of the class, chosen by the            *)
(* preprocessor: the Windows one (handle based) and the POSIX one          *)
(* (descriptor based).  The variable "build" fixes which one a behaviour   *)
(* runs.  Two POSIX builds are told apart, because the arithmetic of       *)
(* "offset / page_size" depends on the widths of offset_t and size_t:      *)
(*   posix64  offset_t and size_t have the same width: the division is     *)
(*            done on unsigned values of that width;                       *)
(*   posix32  offset_t is wider than size_t (a 32 bit build with a 64 bit  *)
(*            off_t): the division is signed and truncates toward zero;    *)
(*   win      offset_t is 64 bit, granularity is a 32 bit unsigned long:   *)
(*            the division is signed and truncates toward zero.            *)
(*                                                                         *)
(* Sizes, addresses and the page size are scaled down; every width is a    *)
(* named definition.                                                       *)
(***************************************************************************)
EXTENDS Integers, Sequences, FiniteSets, TLC

\* ------------------------------------------------------------ bounds ----

\* Number of storage places a mapped_region object can live in.
NumInst == 2

\* log2 of the page size / allocation granularity.
PageShift == 2

\* Width in bits of std::size_t and of an address.
WordBits == 8

\* ---------------------------------------------------- program values ----

Pow2(n) == 2 ^ n

WordMod == Pow2(WordBits)

\* mapped_region::get_page_size(): sysconf(_SC_PAGESIZE), or
\* dwAllocationGranularity.
PageSize == Pow2(PageShift)

\* The null pointer, and the null handle.
Null == 0

\* MAP_FAILED is (void*)-1.
MAP_FAILED == WordMod - 1

\* detail::invalid_file(): INVALID_HANDLE_VALUE, which is not null.
InvalidFile == -1

\* A conversion to std::size_t (modulo 2^WordBits).
ToSizeT(x) == x % WordMod

\* C++ integer division of signed operands: the quotient truncates toward 0.
TruncDiv(a, b) == IF a >= 0 THEN a \div b ELSE -((-a) \div b)

Builds == {"posix64", "posix32", "win"}

IsPosix(b) == b \in {"posix64", "posix32"}

\* The mode_t values: the three modes, and one value outside them.
Modes == {"read_only", "read_write", "copy_on_write", "invalid_mode"}

ValidModes == {"read_only", "read_write", "copy_on_write"}

\* The error_info an interprocess_exception carries ("none": no throw).
Errors == {"none", "mode_error", "size_error", "system_error"}

\* --------------------------------------------------- the address space --

(***************************************************************************)
(* The operating system places a mapping in one of NumSlots disjoint       *)
(* arenas of SlotSize bytes, each starting at a multiple of SlotSize; a    *)
(* mapping never spans two arenas.                                         *)
(***************************************************************************)
SlotSize == 4 * PageSize

NumSlots == NumInst + 1

Slots == 1 .. NumSlots

SlotBase(k) == k * SlotSize

SlotOf(a) == a \div SlotSize

\* A live OS mapping (view): its start address and its length in bytes.
PageRound(n) == ((n + PageSize - 1) \div PageSize) * PageSize

SlotBusy(vs, k) == \E v \in vs : SlotOf(v.addr) = k

FreeSlots(vs) == {k \in Slots : ~SlotBusy(vs, k)}

MinOf(S) == CHOOSE x \in S : \A y \in S : x <= y

\* Whether the range [a, a+n) can be given to a new mapping.
RangeFree(vs, a, n) ==
    /\ a % PageSize = 0
    /\ SlotOf(a) \in FreeSlots(vs)
    /\ n >= 1
    /\ a + n <= SlotBase(SlotOf(a)) + SlotSize

\* An OS call as it is logged: its name, its address or handle argument,
\* its length argument and its result.
Call(name, a, n, r) == [call |-> name, a |-> a, n |-> n, r |-> r]


\* -------------------------------------------------- the operating system --

(***************************************************************************)
(* What the operating system answers in one constructor call: which of the *)
(* calls fails for a reason of its own ("none": none does), and whether    *)
(* mmap places the mapping at the address it was hinted.                   *)
(***************************************************************************)
OsFailures == {"none", "size_query", "handle", "map"}

OsChoices ==
    {[fail |-> "none", honour |-> TRUE]} \cup [fail : OsFailures, honour : {FALSE}]

\* lseek(fd, offset, SEEK_END): the new position, which is the length of the
\* file plus the offset, or -1 (EINVAL) when that is negative.
OsLseekEnd(osc, len, offset) ==
    IF osc.fail = "size_query" \/ len + offset < 0 THEN -1 ELSE len + offset

\* mmap(addr, len, prot, flags, fd, off) without MAP_FIXED: MAP_FAILED, or
\* the start of the new mapping, which is addr only if the system follows
\* the hint.
OsMmap(vs, osc, addr, len, off) ==
    IF \/ osc.fail = "map"
       \/ len = 0
       \/ len > SlotSize
       \/ off < 0
       \/ off % PageSize # 0
       \/ FreeSlots(vs) = {}
    THEN MAP_FAILED
    ELSE IF osc.honour /\ addr # Null /\ RangeFree(vs, addr, len)
         THEN addr
         ELSE SlotBase(MinOf(FreeSlots(vs)))

\* munmap(addr, len): the views after the call, and whether the call named
\* no live mapping (stray).
OsMunmap(vs, addr, len) ==
    LET hit == {v \in vs : v.addr = addr /\ PageRound(v.len) = PageRound(len)}
    IN  [views |-> vs \ hit, stray |-> hit = {}]

\* MapViewOfFileEx(handle, access, offset, len, addr) on a mapping object of
\* maplen bytes: len = 0 maps to the end of the object; a given address is
\* used or the call fails.  The result is the view (addr = Null: failure).
OsMapView(vs, osc, maplen, off, len, addr) ==
    LET n == IF len = 0 THEN maplen - off ELSE len
        a == IF addr # Null THEN addr
             ELSE IF FreeSlots(vs) = {} THEN Null
             ELSE SlotBase(MinOf(FreeSlots(vs)))
    IN  IF \/ osc.fail = "map"
           \/ n < 1
           \/ off + n > maplen
           \/ off % PageSize # 0
           \/ a = Null
           \/ ~RangeFree(vs, a, n)
        THEN [addr |-> Null, len |-> 0]
        ELSE [addr |-> a, len |-> n]

\* UnmapViewOfFile(addr).
OsUnmapView(vs, addr) ==
    LET hit == {v \in vs : v.addr = addr}
    IN  [views |-> vs \ hit, stray |-> hit = {}]

\* The handles a mapped_region may be given by CreateFileMapping or
\* DuplicateHandle.
HandleIds == 1 .. (NumInst + 1)

\* CreateFileMapping(file, access, 0, 0, 0): a new handle, or null; it fails
\* on a file of length 0.  DuplicateHandle: a new handle, or failure.
OsNewHandle(hs, osc) ==
    IF osc.fail = "handle" \/ HandleIds \ hs = {} THEN Null
    ELSE MinOf(HandleIds \ hs)

\* CloseHandle(h): closing a handle that is not open closes nothing.
OsCloseHandle(hs, h) == hs \ {h}

\* ------------------------------------------------------ mapped_region ----

\* The members of a mapped_region.  A POSIX build has no m_file_mapping_hnd:
\* the field stays Null there.
Members(base, size, offset, extra, hnd) ==
    [m_base |-> base, m_size |-> size, m_offset |-> offset,
     m_extra_offset |-> extra, m_file_mapping_hnd |-> hnd]

\* The "not mapped" value of m_base.
Sentinel(b) == IF IsPosix(b) THEN MAP_FAILED ELSE Null

\* mapped_region::mapped_region(): the member initialisers.
DefaultMembers(b) ==
    IF IsPosix(b) THEN Members(MAP_FAILED, 0, 0, 0, Null)
    ELSE Members(Null, 0, 0, 0, InvalidFile)

get_size(f) == f.m_size

get_offset(f) == f.m_offset

get_address(f) == f.m_base

\* mapped_region::flush, POSIX.  ok is the answer of msync.
PosixFlush(f, mapping_offset, numbytes, ok) ==
    IF \/ mapping_offset >= f.m_size
       \/ ToSizeT(mapping_offset + numbytes) > f.m_size
    THEN [ret |-> FALSE, calls |-> << >>]
    ELSE LET n == IF numbytes = 0 THEN f.m_size - mapping_offset ELSE numbytes
         IN  [ret |-> ok,
              calls |-> << Call("msync", f.m_base + mapping_offset, n,
                                IF ok THEN 0 ELSE -1) >>]

\* mapped_region::flush, Windows.  ok is whether FlushViewOfFile succeeds
\* (it then returns a value that is not 0).
WinFlush(f, mapping_offset, numbytes, ok) ==
    IF f.m_base = Null THEN [ret |-> FALSE, calls |-> << >>]
    ELSE IF \/ mapping_offset >= f.m_size
            \/ ToSizeT(mapping_offset + numbytes) > f.m_size
    THEN [ret |-> FALSE, calls |-> << >>]
    ELSE LET n == IF f.m_size = 0 THEN 0
                  ELSE IF numbytes = 0 THEN f.m_size - mapping_offset
                  ELSE numbytes
             r == IF ok THEN 1 ELSE 0
         IN  [ret |-> (0 = r),
              calls |-> << Call("flush_view_of_file",
                                f.m_base + mapping_offset, n, r) >>]

\* mapped_region::flush of the build.
flush(b, f, mapping_offset, numbytes, ok) ==
    IF IsPosix(b) THEN PosixFlush(f, mapping_offset, numbytes, ok)
    ELSE WinFlush(f, mapping_offset, numbytes, ok)

\* mapped_region::priv_close, POSIX: the members, the views, whether munmap
\* named no live mapping, and the OS calls made.
PosixPrivClose(f, vs, hs) ==
    IF f.m_base # MAP_FAILED
    THEN LET fl == PosixFlush(f, 0, 0, TRUE)
             a  == f.m_base - f.m_extra_offset
             n  == ToSizeT(f.m_size + f.m_extra_offset)
             um == OsMunmap(vs, a, n)
         IN  [f |-> [f EXCEPT !.m_base = MAP_FAILED],
              views |-> um.views, handles |-> hs, stray |-> um.stray,
              calls |-> fl.calls \o << Call("munmap", a, n, 0) >>]
    ELSE [f |-> f, views |-> vs, handles |-> hs, stray |-> FALSE,
          calls |-> << >>]

\* mapped_region::priv_close, Windows.
WinPrivClose(f, vs, hs) ==
    LET mapped == f.m_base # Null
        fl == IF mapped THEN WinFlush(f, 0, 0, TRUE).calls ELSE << >>
        a  == f.m_base - f.m_extra_offset
        um == IF mapped THEN OsUnmapView(vs, a)
              ELSE [views |-> vs, stray |-> FALSE]
        c1 == IF mapped
              THEN fl \o << Call("unmap_view_of_file", a, 0, 0) >>
              ELSE << >>
        h  == f.m_file_mapping_hnd
        c2 == IF h # Null THEN << Call("close_handle", h, 0, 0) >> ELSE << >>
    IN  [f |-> [f EXCEPT !.m_base = Null, !.m_file_mapping_hnd = Null],
         views |-> um.views,
         handles |-> IF h # Null THEN OsCloseHandle(hs, h) ELSE hs,
         stray |-> um.stray,
         calls |-> c1 \o c2]

\* A priv_close that forgets the mapping without releasing it.
PrivCloseLeak(b, f, vs, hs) ==
    [f |-> [f EXCEPT !.m_base = Sentinel(b)], views |-> vs, handles |-> hs,
     stray |-> FALSE, calls |-> << >>]

priv_close(b, f, vs, hs) ==
    IF IsPosix(b) THEN PosixPrivClose(f, vs, hs) ELSE WinPrivClose(f, vs, hs)


\* m_extra_offset = offset - (offset / page_size) * page_size, with the
\* arithmetic of the build: unsigned of the width of size_t (posix64), or
\* signed with a quotient truncated toward zero (posix32, win).
ExtraOffset(b, offset) ==
    IF b = "posix64"
    THEN LET u == ToSizeT(offset)
             q == u \div PageSize
         IN  ToSizeT(u - ToSizeT(q * PageSize))
    ELSE offset - TruncDiv(offset, PageSize) * PageSize

\* Storing the values handed to the system instead of the user's.
StoreAlignedValues(f, offset, size) ==
    [f EXCEPT !.m_offset = offset - f.m_extra_offset,
              !.m_size = size + f.m_extra_offset]

\* "Store user values in memory": m_offset = offset; m_size = size.
StoreUserValues(f, offset, size) ==
    [f EXCEPT !.m_offset = offset, !.m_size = size]

\* "Calculate new base for the user": m_base = m_base + m_extra_offset.
UserBase(raw, extra) == raw + extra

\* "Update the mapping address": a given address is moved back by
\* m_extra_offset.
HintAddress(address, extra) ==
    IF address # Null THEN address - extra ELSE Null

\* "Check for fixed mapping error".
FixedMappingError(address, old_base) ==
    address # Null /\ old_base # address

\* What a constructor call comes to: the error thrown ("none": the object
\* exists), the members at that point, the state of the system, and the OS
\* calls made.
Outcome(err, f, vs, hs, stray, calls) ==
    [err |-> err, f |-> f, views |-> vs, handles |-> hs, stray |-> stray,
     calls |-> calls]

\* Throwing without this->priv_close().
ThrowWithoutClose(b, err, f, vs, hs, calls) ==
    Outcome(err, f, vs, hs, FALSE, calls)

\* Throwing after this->priv_close().
CloseAndThrow(b, err, f, vs, hs, calls) ==
    LET Thrown(pc) ==
            Outcome(err, pc.f, pc.views, pc.handles, pc.stray,
                    calls \o pc.calls)
    IN  Thrown(priv_close(b, f, vs, hs))

(***************************************************************************)
(* mapped_region::mapped_region(mapping, mode, offset, size, address),     *)
(* POSIX.  req is the call: the length of the file behind mapping (len),   *)
(* mode, offset, size and address.                                         *)
(***************************************************************************)
PosixCtor(b, req, osc, vs, hs) ==
    LET init      == DefaultMembers(b)
        infer     == req.size = 0
        filesize  == OsLseekEnd(osc, req.len, req.offset)
        seek      == IF infer
                     THEN << Call("lseek", req.offset, 0, filesize) >>
                     ELSE << >>
        remaining == filesize - req.offset
        size      == IF infer THEN ToSizeT(remaining) ELSE req.size
    IN  IF infer /\ filesize = -1
        THEN Outcome("system_error", init, vs, hs, FALSE, seek)
        ELSE IF infer /\ req.offset >= filesize
        THEN Outcome("size_error", init, vs, hs, FALSE, seek)
        ELSE IF infer /\ size # remaining
        THEN Outcome("size_error", init, vs, hs, FALSE, seek)
        ELSE IF req.mode \notin ValidModes
        THEN Outcome("mode_error", init, vs, hs, FALSE, seek)
        ELSE
        LET extra   == ExtraOffset(b, req.offset)
            f1      == StoreUserValues(
                          [init EXCEPT !.m_extra_offset = extra],
                          req.offset, size)
            address == HintAddress(req.address, extra)
            len     == ToSizeT(extra + size)
            off     == req.offset - extra
            \* res is what mmap returned.
            Mapped(res) ==
                LET calls == seek \o << Call("mmap", address, len, res) >>
                IN  IF res = MAP_FAILED
                    THEN CloseAndThrow(b, "system_error",
                                       [f1 EXCEPT !.m_base = res], vs, hs,
                                       calls)
                    ELSE
                    LET vs1 == vs \cup {[addr |-> res, len |-> len]}
                        f2  == StoreUserValues(
                                  [f1 EXCEPT !.m_base = UserBase(res, extra)],
                                  req.offset, size)
                    IN  IF FixedMappingError(address, res)
                        THEN CloseAndThrow(b, "system_error", f2, vs1, hs,
                                           calls)
                        ELSE Outcome("none", f2, vs1, hs, FALSE, calls)
        IN  Mapped(OsMmap(vs, osc, address, len, off))

\* Width in bits of unsigned long on Windows.
DwordBits == 8

ToDword(x) == x % Pow2(DwordBits)

\* foffset_low = (unsigned long)(offset / granularity) * granularity: the
\* quotient is cut to an unsigned long, and the product is one.
FoffsetLowOf(offset, granularity) ==
    ToDword(ToDword(TruncDiv(offset, granularity)) * granularity)

\* A foffset_high computed from the quotient cut to an unsigned long.
FoffsetHighOfCutQuotient(offset, granularity) ==
    ToDword((ToDword(TruncDiv(offset, granularity)) * granularity)
               \div Pow2(DwordBits))

\* foffset_high =
\*    (unsigned long)(((offset / granularity) * granularity) >> 32).
FoffsetHighOf(offset, granularity) ==
    ToDword((TruncDiv(offset, granularity) * granularity)
               \div Pow2(DwordBits))

\* The two words with the granularity get_system_info reports.
FoffsetLow(offset) == FoffsetLowOf(offset, PageSize)

FoffsetHigh(offset) == FoffsetHighOf(offset, PageSize)

(***************************************************************************)
(* mapped_region::mapped_region(mapping, mode, offset, size, address),     *)
(* Windows.  req.is_shm is mapping.get_mapping_handle().is_shm.            *)
(***************************************************************************)
WinCtor(b, req, osc, vs, hs) ==
    LET init == DefaultMembers(b)
    IN  IF req.mode \notin ValidModes
        THEN Outcome("mode_error", init, vs, hs, FALSE, << >>)
        ELSE
        LET infer   == ~req.is_shm /\ req.size = 0
            gfs_ok  == osc.fail # "size_query"
            c0      == IF infer
                       THEN << Call("get_file_size", 0, 0,
                                    IF gfs_ok THEN req.len ELSE -1) >>
                       ELSE << >>
            total_size == req.len
            size    == IF infer THEN ToSizeT(total_size - req.offset)
                       ELSE req.size
            \* create_file_mapping, on a file only: it fails on an empty file.
            cfm     == IF req.len = 0 THEN Null ELSE OsNewHandle(hs, osc)
            c1      == IF req.is_shm THEN c0
                       ELSE c0 \o << Call("create_file_mapping", 0, 0, cfm) >>
            hs1     == IF req.is_shm \/ cfm = Null THEN hs ELSE hs \cup {cfm}
        IN  IF infer /\ ~gfs_ok
            THEN Outcome("system_error", init, vs, hs, FALSE, c0)
            ELSE IF infer /\ total_size > WordMod - 1
            THEN Outcome("size_error", init, vs, hs, FALSE, c0)
            ELSE IF ~req.is_shm /\ cfm = Null
            THEN CloseAndThrow(b, "system_error", init, vs, hs, c1)
            ELSE
            LET c2      == c1 \o << Call("get_system_info", 0, 0, PageSize) >>
                foffset_low  == FoffsetLow(req.offset)
                foffset_high == FoffsetHigh(req.offset)
                extra   == ExtraOffset(b, req.offset)
                f1      == StoreUserValues(
                              [init EXCEPT !.m_extra_offset = extra],
                              req.offset, size)
                address == HintAddress(req.address, extra)
                dup     == OsNewHandle(hs1, osc)
                c3      == IF req.is_shm
                           THEN c2 \o << Call("duplicate_handle", 0, 0, dup) >>
                           ELSE c2
            IN  IF req.is_shm /\ dup = Null
                THEN CloseAndThrow(b, "system_error", f1, vs, hs1, c3)
                ELSE
                LET f2  == IF req.is_shm
                           THEN [f1 EXCEPT !.m_file_mapping_hnd = dup]
                           ELSE f1
                    hs2 == IF req.is_shm THEN hs1 \cup {dup} ELSE hs1
                    native == IF req.is_shm THEN dup ELSE cfm
                    len == IF size # 0 THEN ToSizeT(extra + size) ELSE 0
                    off == foffset_high * Pow2(DwordBits) + foffset_low
                    hs3 == IF req.is_shm THEN hs2
                           ELSE OsCloseHandle(hs2, native)
                    \* view is what map_view_of_file_ex made.
                    Mapped(view) ==
                        LET c4 == c3 \o << Call("map_view_of_file_ex", address,
                                                len, view.addr) >>
                            c5 == IF req.is_shm THEN c4
                                  ELSE c4 \o << Call("close_handle", native,
                                                     0, 0) >>
                            f3 == [f2 EXCEPT !.m_base = view.addr]
                        IN  IF view.addr = Null
                            THEN CloseAndThrow(b, "system_error", f3, vs, hs3,
                                               c5)
                            ELSE Outcome("none",
                                         [f3 EXCEPT !.m_base =
                                             UserBase(view.addr, extra)],
                                         vs \cup {view}, hs3, FALSE, c5)
                IN  Mapped(OsMapView(vs, osc, req.len, off, len, address))

Ctor(b, req, osc, vs, hs) ==
    IF IsPosix(b) THEN PosixCtor(b, req, osc, vs, hs)
    ELSE WinCtor(b, req, osc, vs, hs)

\* A swap that copies other into this and leaves other as it was.
SwapCopies(this, other) == << other, other >>

\* A swap that leaves out m_size.
SwapKeepsSize(this, other) ==
    << [other EXCEPT !.m_size = this.m_size],
       [this EXCEPT !.m_size = other.m_size] >>

\* A swap that leaves out m_file_mapping_hnd.
SwapKeepsHandle(this, other) ==
    << [other EXCEPT !.m_file_mapping_hnd = this.m_file_mapping_hnd],
       [this EXCEPT !.m_file_mapping_hnd = other.m_file_mapping_hnd] >>

\* A swap that leaves out m_offset.
SwapKeepsOffset(this, other) ==
    << [other EXCEPT !.m_offset = this.m_offset],
       [this EXCEPT !.m_offset = other.m_offset] >>

\* detail::do_swap on every member: what (this, other) hold afterwards.
swap(this, other) == << other, this >>


\* ---------------------------------------------------------------- state --

VARIABLES
    build,    \* which definition of the class the preprocessor chose
    inst,     \* the members of the object in each storage place
    live,     \* the storage places that hold an object (constructed, not
              \* yet destroyed)
    views,    \* the live OS mappings: records [addr, len]
    handles,  \* the open handles the class was given by the system
    stray,    \* whether some unmap call named no live mapping
    last      \* the last operation: its name, its arguments, the error it
              \* threw, the OS calls it made

vars == << build, inst, live, views, handles, stray, last >>

Inst == 1 .. NumInst

\* No mapping constructor call.
NoReq == [len |-> 0, is_shm |-> FALSE, mode |-> "read_only", offset |-> 0,
          size |-> 0, address |-> Null]

\* No object.
NoMembers ==
    [m_base |-> Null, m_size |-> 0, m_offset |-> 0, m_extra_offset |-> 0,
     m_file_mapping_hnd |-> Null]

Op(name, self, other, req, err, obj, calls) ==
    [op |-> name, self |-> self, other |-> other, req |-> req, err |-> err,
     obj |-> obj, calls |-> calls]

\* A call of flush as it is recorded: its arguments, what it returned, the
\* members of the object and the OS calls made.
FlushOp(self, mapping_offset, numbytes, ret, obj, calls) ==
    [op |-> "flush", self |-> self, other |-> 0, req |-> NoReq,
     err |-> "none", obj |-> obj, calls |-> calls,
     mapping_offset |-> mapping_offset, numbytes |-> numbytes, ret |-> ret]

\* The calls that make or release a mapping.
MapCalls == {"mmap", "map_view_of_file_ex"}

UnmapCalls == {"munmap", "unmap_view_of_file"}

\* The last operation without the detail: which operation, the error it
\* threw, and the names of the map and unmap calls it made.
Brief(l) ==
    [l EXCEPT !.req = NoReq, !.obj = NoMembers, !.self = 0, !.other = 0,
              !.calls = SelectSeq([k \in DOMAIN l.calls |-> l.calls[k].call],
                                  LAMBDA c : c \in MapCalls \cup UnmapCalls)]

Record(log, l) == IF log THEN l ELSE Brief(l)

\* The values the calls of the constructor are drawn from, when one
\* constructor call is looked at.
ReqLens == {0, PageSize + 2, 2 * PageSize + 2}

ReqOffsets == {-3, 0, 2, PageSize + 1, PageSize + 3, 3 * PageSize}

ReqSizes == {0, 1, 4}

ReqAddresses == {Null, 1, SlotBase(2) + 1, SlotBase(2) + 2}

Requests ==
    [len : ReqLens, is_shm : BOOLEAN, mode : Modes, offset : ReqOffsets,
     size : ReqSizes, address : ReqAddresses]

\* The values they are drawn from when several objects are created, moved
\* and destroyed.
FewRequests ==
    [len : {2 * PageSize + 2}, is_shm : BOOLEAN, mode : {"read_write"},
     offset : {-3, PageSize + 1}, size : {0, 4},
     address : {Null, SlotBase(2) + 1}]

\* The mapping handle of a POSIX mappable is a descriptor: there is no
\* is_shm to tell apart.
RequestsOf(b, R) == IF IsPosix(b) THEN {r \in R : ~r.is_shm} ELSE R

Init ==
    /\ build \in Builds
    /\ inst = [i \in Inst |-> DefaultMembers(build)]
    /\ live = {}
    /\ views = {}
    /\ handles = {}
    /\ stray = FALSE
    /\ last = Brief(Op("init", 0, 0, NoReq, "none", NoMembers, << >>))

\* mapped_region r;
DefaultConstruct(i) ==
    /\ i \notin live
    /\ live' = live \cup {i}
    /\ inst' = [inst EXCEPT ![i] = DefaultMembers(build)]
    /\ last' = Brief(Op("default", i, 0, NoReq, "none", NoMembers, << >>))
    /\ UNCHANGED << build, views, handles, stray >>

\* mapped_region r(mapping, mode, offset, size, address); a constructor that
\* throws leaves no object.
Construct(i, req, osc, log) ==
    /\ i \notin live
    /\ \E out \in {Ctor(build, req, osc, views, handles)} :
           /\ live' = IF out.err = "none" THEN live \cup {i} ELSE live
           /\ inst' = IF out.err = "none"
                      THEN [inst EXCEPT ![i] = out.f]
                      ELSE inst
           /\ views' = out.views
           /\ handles' = out.handles
           /\ stray' = (stray \/ out.stray)
           /\ last' = Record(log, Op("construct", i, 0, req, out.err, out.f,
                                    out.calls))
    /\ UNCHANGED build

\* mapped_region r(move(other)): the member initialisers, then swap.
MoveConstruct(i, j) ==
    /\ i \notin live
    /\ j \in live
    /\ LET sw == swap(DefaultMembers(build), inst[j])
       IN  /\ inst' = [inst EXCEPT ![i] = sw[1], ![j] = sw[2]]
           /\ last' = Brief(Op("move_construct", i, j, NoReq, "none", NoMembers,
                            << >>))
    /\ live' = live \cup {i}
    /\ UNCHANGED << build, views, handles, stray >>

\* r = move(other): this->swap(other).
MoveAssign(i, j) ==
    /\ i \in live
    /\ j \in live
    /\ LET sw == swap(inst[i], inst[j])
       IN  /\ inst' = [inst EXCEPT ![i] = sw[1], ![j] = sw[2]]
           /\ last' = Brief(Op("move_assign", i, j, NoReq, "none", NoMembers,
                            << >>))
    /\ UNCHANGED << build, live, views, handles, stray >>

\* r.swap(other), swap(r, other).
Swap(i, j) ==
    /\ i \in live
    /\ j \in live
    /\ LET sw == swap(inst[i], inst[j])
       IN  /\ inst' = [inst EXCEPT ![i] = sw[1], ![j] = sw[2]]
           /\ last' = Brief(Op("swap", i, j, NoReq, "none", NoMembers, << >>))
    /\ UNCHANGED << build, live, views, handles, stray >>

\* r.flush(mapping_offset, numbytes); ok is whether the flush call of the
\* system succeeds, if one is made.
Flush(i, mapping_offset, numbytes, ok) ==
    /\ i \in live
    /\ \E fl \in {flush(build, inst[i], mapping_offset, numbytes, ok)} :
           last' = FlushOp(i, mapping_offset, numbytes, fl.ret, inst[i],
                           fl.calls)
    /\ UNCHANGED << build, inst, live, views, handles, stray >>

\* ~mapped_region(): priv_close.  The storage of a destroyed object holds
\* no value: the model keeps the default members there.
Destroy(i, log) ==
    /\ i \in live
    /\ \E pc \in {priv_close(build, inst[i], views, handles)} :
           /\ views' = pc.views
           /\ handles' = pc.handles
           /\ stray' = (stray \/ pc.stray)
           /\ last' = Record(log, Op("destroy", i, 0, NoReq, "none", pc.f,
                                    pc.calls))
    /\ live' = live \ {i}
    /\ inst' = [inst EXCEPT ![i] = DefaultMembers(build)]
    /\ UNCHANGED build

(***************************************************************************)
(* Objects are created, moved, swapped and destroyed in any order.         *)
(***************************************************************************)
Next ==
    \/ \E i \in Inst : DefaultConstruct(i)
    \/ \E i \in Inst \ live, req \in RequestsOf(build, FewRequests),
          osc \in OsChoices :
          Construct(i, req, osc, FALSE)
    \/ \E i \in Inst, j \in Inst : MoveConstruct(i, j)
    \/ \E i \in Inst, j \in Inst : MoveAssign(i, j)
    \/ \E i \in Inst, j \in Inst : Swap(i, j)
    \/ \E i \in Inst : Destroy(i, FALSE)

Spec == Init /\ [][Next]_vars

(***************************************************************************)
(* One constructor call, on every request, and the destruction of the      *)
(* object it made; the operation is recorded with its request, the members *)
(* it left and the OS calls it made.                                       *)
(***************************************************************************)
NextCtor ==
    \/ /\ last.op = "init"
       /\ \E req \in RequestsOf(build, Requests), osc \in OsChoices :
             Construct(1, req, osc, TRUE)
    \/ Destroy(1, TRUE)

CtorSpec == Init /\ [][NextCtor]_vars


\* The std::size_t values flush is called with: small ones, and ones whose
\* sum leaves the range of std::size_t.
FlushArgs == {0, 1, 4, 5, WordMod - 4, WordMod - 1}

(***************************************************************************)
(* The life of one object: it is made by the default constructor or by a   *)
(* mapping constructor call, flushed any number of times and destroyed;    *)
(* flush and the destructor are recorded with the members and the OS calls *)
(* they made.                                                              *)
(***************************************************************************)
NextOne ==
    \/ /\ last.op = "init"
       /\ DefaultConstruct(1)
    \/ /\ last.op = "init"
       /\ \E req \in RequestsOf(build, FewRequests), osc \in OsChoices :
             Construct(1, req, osc, TRUE)
    \/ \E mapping_offset \in FlushArgs, numbytes \in FlushArgs,
          ok \in BOOLEAN :
          Flush(1, mapping_offset, numbytes, ok)
    \/ Destroy(1, TRUE)

OneSpec == Init /\ [][NextOne]_vars


\* Width in bits of offset_t (__int64) on Windows: two unsigned longs.
OffsetBits == 2 * DwordBits

\* The offsets that are not negative.
SplitOffsets == 0 .. (Pow2(OffsetBits - 1) - 1)

\* Values of dwAllocationGranularity: any unsigned long but 0 is taken.
Granularities ==
    {1, 3, PageSize, Pow2(DwordBits - 1), Pow2(DwordBits) - 1}

\* The computation of the two words of the file offset as it is recorded.
SplitOp(offset, granularity, high, low) ==
    [op |-> "split", self |-> 0, other |-> 0, req |-> NoReq, err |-> "none",
     obj |-> NoMembers, calls |-> << >>, offset |-> offset,
     granularity |-> granularity, foffset_high |-> high, foffset_low |-> low]

\* "Now we calculate valid offsets" in the Windows constructor.
Split(offset, granularity) ==
    /\ last' = SplitOp(offset, granularity,
                       FoffsetHighOf(offset, granularity),
                       FoffsetLowOf(offset, granularity))
    /\ UNCHANGED << build, inst, live, views, handles, stray >>

(***************************************************************************)
(* The two words of the file offset, for every offset that is not negative *)
(* and several granularities.                                              *)
(***************************************************************************)
NextSplit ==
    /\ build = "win"
    /\ last.op = "init"
    /\ \E offset \in SplitOffsets, granularity \in Granularities :
          Split(offset, granularity)

SplitSpec == Init /\ [][NextSplit]_vars

\* --------------------------------------------------------- properties ----

\* The object holds a mapping: m_base is not the "not mapped" value.
IsMapped(f) == f.m_base # Sentinel(build)

\* The start of the OS mapping an object holds.
RawBase(f) == f.m_base - f.m_extra_offset

Owners(v) == {i \in live : IsMapped(inst[i]) /\ RawBase(inst[i]) = v.addr}

Made(names) == \E k \in DOMAIN last.calls : last.calls[k] \in names

\* C1: after a = move(b), a holds what b held, b is not mapped, and the
\* mapping a held before is released when the assignment returns.
C1_MoveAssign ==
    [][\A a, b \in Inst :
          (a # b /\ MoveAssign(a, b)) =>
             /\ inst'[a] = inst[b]
             /\ ~IsMapped(inst'[b])
             /\ IsMapped(inst[a]) =>
                   ~\E v \in views' : v.addr = RawBase(inst[a])]_vars

\* C2: every live OS mapping is held by exactly one live object, and no two
\* live objects hold the same mapping.
C2_OwnershipUnique ==
    /\ \A v \in views : Cardinality(Owners(v)) = 1
    /\ \A i, j \in live :
          (i # j /\ IsMapped(inst[i]) /\ IsMapped(inst[j])) =>
             RawBase(inst[i]) # RawBase(inst[j])

\* C2: two objects hold a mapping each after a move assignment.
C2_Witness ==
    /\ last.op = "move_assign"
    /\ Cardinality(views) = 2
    /\ \E i, j \in live : i # j /\ IsMapped(inst[i]) /\ IsMapped(inst[j])

\* C3: no unmap call names a mapping that is not live (none is released
\* twice), and once every object is destroyed no mapping is left.
C3_ExactlyOnce ==
    /\ ~stray
    /\ (live = {}) => (views = {})

\* C3: the last object was destroyed and its mapping released.
C3_Witness ==
    /\ last.op = "destroy"
    /\ Made(UnmapCalls)
    /\ live = {}
    /\ views = {}

\* C9: a constructor call that throws leaves the live mappings and the open
\* handles as they were before the call.
C9_FailureCleanup ==
    [][(last'.op = "construct" /\ last'.err # "none") =>
          (views' = views /\ handles' = handles)]_vars

\* C9: a constructor threw after it had made a mapping and released it,
\* while another object holds a mapping.
C9_Witness ==
    /\ last.op = "construct"
    /\ last.err = "system_error"
    /\ Made(MapCalls)
    /\ Made(UnmapCalls)
    /\ views # {}

\* C10: an object that is not mapped reports the size 0 and the offset 0.
C10_UnmappedCanonical ==
    \A i \in live :
       get_address(inst[i]) = Sentinel(build) =>
          (get_size(inst[i]) = 0 /\ get_offset(inst[i]) = 0)

\* C10: an object was moved from (it is not mapped) into an object that
\* now holds a mapping of a size that is not 0.
C10_Witness ==
    /\ last.op = "move_construct"
    /\ \E i, j \in live :
          /\ ~IsMapped(inst[i])
          /\ IsMapped(inst[j])
          /\ get_size(inst[j]) # 0


\* The constructor call CtorSpec records, and what it came to.
Constructed == last.op = "construct" /\ last.err = "none"

\* The size query (lseek, get_file_size) was made and did not fail.
SizeQueried ==
    \E k \in DOMAIN last.calls :
       /\ last.calls[k].call \in {"lseek", "get_file_size"}
       /\ last.calls[k].r # -1

\* The length the map call asked for.
MapCallLength(n) ==
    \E k \in DOMAIN last.calls :
       last.calls[k].call \in MapCalls /\ last.calls[k].n = n

\* C4: a constructor called with size 0 on a file of len bytes, at an offset
\* from 0 to below len, leaves get_size() = len - offset and asks the system
\* for m_extra_offset + (len - offset) bytes.
C4_SizeInference ==
    (/\ Constructed
     /\ ~last.req.is_shm
     /\ last.req.size = 0
     /\ last.req.offset >= 0
     /\ last.req.offset < last.req.len) =>
       /\ get_size(last.obj) = last.req.len - last.req.offset
       /\ MapCallLength(last.obj.m_extra_offset
                           + (last.req.len - last.req.offset))

\* C5: a constructor called with size 0 and an offset above the length of
\* the file throws size_error, makes no map call and leaves no mapped
\* object.
C5_OffsetPastEnd ==
    (/\ last.op = "construct"
     /\ ~last.req.is_shm
     /\ last.req.mode \in ValidModes
     /\ last.req.size = 0
     /\ last.req.offset > last.req.len
     /\ SizeQueried) =>
       /\ last.err = "size_error"
       /\ ~\E k \in DOMAIN last.calls : last.calls[k].call \in MapCalls
       /\ live = {}

\* C6: a constructor called with a mode outside the three modes throws
\* mode_error and makes no OS call.
C6_InvalidMode ==
    (last.op = "construct" /\ last.req.mode \notin ValidModes) =>
       (last.err = "mode_error" /\ last.calls = << >>)

\* C7: a constructor that succeeds on a size above 0 leaves the object
\* mapped, with get_offset() the offset and get_size() the size of the call.
C7_ConstructPost ==
    (Constructed /\ last.req.size > 0) =>
       /\ 1 \in live
       /\ IsMapped(inst[1])
       /\ get_offset(inst[1]) = last.req.offset
       /\ get_size(inst[1]) = last.req.size

\* C7: a constructor succeeded at an offset that is no multiple of the page
\* size, inside the file.
C7_Witness ==
    /\ Constructed
    /\ last.req.size > 0
    /\ last.req.offset > 0
    /\ last.req.offset % PageSize # 0
    /\ last.req.offset + last.req.size <= last.req.len
    /\ inst[1].m_extra_offset # 0
    /\ get_address(inst[1]) # RawBase(inst[1])

\* C8: whenever the constructor succeeds, m_extra_offset is the offset
\* modulo the page size, it lies in 0 .. PageSize - 1, and the offset handed
\* to the system is a multiple of the page size.
C8_ExtraOffset ==
    Constructed =>
       /\ 0 <= last.obj.m_extra_offset
       /\ last.obj.m_extra_offset < PageSize
       /\ last.obj.m_extra_offset = last.req.offset % PageSize
       /\ (last.req.offset - last.obj.m_extra_offset) % PageSize = 0

\* The flush calls of the system.
FlushCalls == {"msync", "flush_view_of_file"}

\* flush was called on an object that holds a mapping.
FlushedMapped == last.op = "flush" /\ IsMapped(last.obj)

\* C11: flush(mapping_offset, numbytes) on a mapped object of size S returns
\* false and makes no flush call when mapping_offset >= S or
\* mapping_offset + numbytes > S; otherwise it makes one flush call, at
\* m_base + mapping_offset, of numbytes bytes (of S - mapping_offset bytes
\* when numbytes is 0).
C11_FlushBounds ==
    FlushedMapped =>
       LET S  == get_size(last.obj)
           mo == last.mapping_offset
           nb == last.numbytes
       IN  IF mo >= S \/ mo + nb > S
           THEN last.ret = FALSE /\ last.calls = << >>
           ELSE /\ Len(last.calls) = 1
                /\ last.calls[1].call \in FlushCalls
                /\ last.calls[1].a = get_address(last.obj) + mo
                /\ last.calls[1].n = (IF nb = 0 THEN S - mo ELSE nb)

\* The map call of the recorded constructor call was asked for the address
\* a and returned it.
MapCallAt(a) ==
    \E k \in DOMAIN last.calls :
       /\ last.calls[k].call \in MapCalls
       /\ last.calls[k].a = a
       /\ last.calls[k].r = a

\* C12: a constructor called with an address that is not null either leaves
\* the object mapped with get_address() the address of the call, the system
\* having been asked for that address less m_extra_offset, or throws and
\* leaves no mapping.
C12_FixedAddress ==
    (last.op = "construct" /\ last.req.address # Null) =>
       IF last.err = "none"
       THEN /\ IsMapped(inst[1])
            /\ get_address(inst[1]) = last.req.address
            /\ MapCallAt(last.req.address - inst[1].m_extra_offset)
       ELSE live = {} /\ views = {}

\* C13: constructing a from move(b) leaves a with the members b had, leaves
\* b with the members of a default-constructed object, and makes no OS
\* call: the mappings and the handles stay as they were.
C13_MoveConstruct ==
    [][last'.op = "move_construct" =>
          \A a, b \in Inst :
             MoveConstruct(a, b) =>
                /\ inst'[a] = inst[b]
                /\ inst'[b] = DefaultMembers(build)
                /\ ~IsMapped(inst'[b])
                /\ views' = views
                /\ handles' = handles
                /\ last'.calls = << >>]_vars

\* C13: after a move construction one object holds a mapping and an open
\* handle, and the object it was moved from is as default-constructed.
C13_Witness ==
    /\ last.op = "move_construct"
    /\ \E i, j \in live :
          /\ i # j
          /\ IsMapped(inst[i])
          /\ inst[i].m_file_mapping_hnd \in handles
          /\ inst[j] = DefaultMembers(build)

\* C16: the mapping a mapped object holds starts at m_base - m_extra_offset
\* and is m_size + m_extra_offset bytes long, and the bytes from m_base to
\* m_base + m_size lie inside it.
C16_Geometry ==
    \A i \in live :
       IsMapped(inst[i]) =>
          \E v \in views :
             /\ v.addr = RawBase(inst[i])
             /\ v.len = inst[i].m_size + inst[i].m_extra_offset
             /\ v.addr <= inst[i].m_base
             /\ inst[i].m_base + inst[i].m_size <= v.addr + v.len

\* C17: swap(a, b) exchanges the members of a and b, leaves every other
\* object, the mappings and the handles as they were, makes no OS call, and
\* a second swap gives back the members a and b had; swap(a, a) leaves a
\* as it was.
C17_Swap ==
    [][last'.op = "swap" =>
          \A a, b \in Inst :
             Swap(a, b) =>
                /\ inst'[a] = inst[b]
                /\ inst'[b] = inst[a]
                /\ \A c \in Inst \ {a, b} : inst'[c] = inst[c]
                /\ live' = live
                /\ views' = views
                /\ handles' = handles
                /\ last'.calls = << >>
                /\ swap(inst'[a], inst'[b]) = << inst[a], inst[b] >>]_vars

\* C17: after a swap two objects hold a mapping each, at different
\* offsets, and one of them an open handle.
C17_Witness ==
    /\ last.op = "swap"
    /\ \E i, j \in live :
          /\ i # j
          /\ IsMapped(inst[i])
          /\ IsMapped(inst[j])
          /\ inst[i].m_offset # inst[j].m_offset
          /\ inst[i].m_file_mapping_hnd \in handles

\* C14: destroying an object that holds no mapping makes no OS call, leaves
\* the members of the object as they were, and leaves the mappings and the
\* handles as they were.
C14_TeardownIdempotent ==
    [][\A i \in Inst :
          (Destroy(i, TRUE) /\ ~IsMapped(inst[i])) =>
             /\ last'.calls = << >>
             /\ last'.obj = inst[i]
             /\ views' = views
             /\ handles' = handles]_vars

\* The OS calls c are a teardown of the mapped object f: at most one flush,
\* of m_size bytes at m_base, then one unmap at m_base - m_extra_offset,
\* then the close of the handle the object owns, if it owns one.
IsTeardown(c, f, hs) ==
    \E nf \in {0, 1} :
       /\ Len(c) >= nf + 1
       /\ nf = 1 =>
             /\ c[1].call \in FlushCalls
             /\ c[1].a = f.m_base
             /\ c[1].n = f.m_size
       /\ c[nf + 1].call \in UnmapCalls
       /\ c[nf + 1].a = RawBase(f)
       /\ IF f.m_file_mapping_hnd \in hs
          THEN /\ Len(c) = nf + 2
               /\ c[nf + 2].call = "close_handle"
               /\ c[nf + 2].a = f.m_file_mapping_hnd
          ELSE Len(c) = nf + 1

\* C15: destroying a mapped object makes these OS calls, in this order and
\* each at most once: a flush of the m_size bytes at m_base, the unmap of
\* its mapping, and the close of the duplicated handle it owns; nothing is
\* thrown.
C15_TeardownOrder ==
    [][\A i \in Inst :
          (Destroy(i, TRUE) /\ IsMapped(inst[i])) =>
             /\ IsTeardown(last'.calls, inst[i], handles)
             /\ last'.err = "none"]_vars

\* C18: every flush call of the system that flush makes, for any two
\* std::size_t arguments, is made on an object that holds a live mapping
\* and names bytes from m_base to m_base + m_size only; none is made on an
\* object that holds no mapping.
C18_FlushInside ==
    last.op = "flush" =>
       \A k \in DOMAIN last.calls :
          last.calls[k].call \in FlushCalls =>
             /\ IsMapped(last.obj)
             /\ \E v \in views : v.addr = RawBase(last.obj)
             /\ get_address(last.obj) <= last.calls[k].a
             /\ last.calls[k].a + last.calls[k].n
                   <= get_address(last.obj) + get_size(last.obj)

\* C19: for every offset that is not negative and every granularity, the
\* two unsigned long words handed to the view mapping call make up the
\* offset rounded down to a multiple of the granularity:
\* foffset_high * 2^DwordBits + foffset_low = (offset \div g) * g.
C19_OffsetSplit ==
    last.op = "split" =>
       last.foffset_high * Pow2(DwordBits) + last.foffset_low
          = (last.offset \div last.granularity) * last.granularity

\* C19: an offset whose quotient by a granularity above 1 does not fit an
\* unsigned long, with a high word and a low word that are not 0 and an
\* offset that is no multiple of the granularity.
C19_Witness ==
    /\ last.op = "split"
    /\ last.granularity > 1
    /\ last.offset \div last.granularity >= Pow2(DwordBits)
    /\ last.offset % last.granularity # 0
    /\ last.foffset_high > 0
    /\ last.foffset_low > 0

=============================================================================
